---- MODULE Spec2Model ----
(***************************************************************************)
(* A model of grada's data aggregator (src/metrics.go): the ring buffer    *)
(* Metric (Add, AddWithTime, AddCount, AddList, AppendWithTime,            *)
(* fetchDatapoints, fetchMetric) and the registry Metrics (Get, Put,       *)
(* Delete, Create).                                                        *)
(*                                                                         *)
(* Three specifications share the variables:                               *)
(*   Spec      one goroutine calls the ring buffer's methods one after     *)
(*             the other; every action is a whole method.                  *)
(*   SpecConc  several goroutines call Add / AddCount / fetchMetric /      *)
(*             fetchDatapoints on one ring buffer; every action is one     *)
(*             step between two scheduling points of a method.             *)
(*   SpecReg   one goroutine calls the registry's methods one after the    *)
(*             other; every action is a whole method.                      *)
(***************************************************************************)
EXTENDS Integers, Sequences, FiniteSets, TLC

(* ---------------------------------------------------------------- bounds *)

\* largest ring buffer size passed to NewMetric / Create
MaxCap == 3

\* largest number of samples written to the ring buffer in one behaviour
MaxAdds == 5

\* longest list passed to AddList
MaxBatch == 3

\* number of goroutines of SpecConc
NumThreads == 2

\* largest number of samples the goroutines of SpecConc write in one behaviour
MaxConcAdds == 3

\* largest number of Metric objects allocated in one behaviour of SpecReg
MaxMetrics == 3

(* ------------------------------------------------------------- constants *)

\* count.T.UnixNano() / 1000000: nanoseconds per millisecond
NanosPerMs == 1000000

\* time.Time{}.UnixNano(), the timestamp of a slot make() has zeroed.  Go
\* yields -6795364578871345152, outside TLC's integers: the model keeps its
\* sign and its not being a multiple of NanosPerMs.
ZeroTimeNano == -679536457

\* float64 values passed to Add (none is the zero value 0)
Values == {1, 2}

\* time.Time values, as UnixNano(): what time.Now() returns or a caller passes
Times == {1999999, 3000000}

\* the nil *Metric
Nil == 0

\* the nil error, and the errors of Get, Put and Delete (errors.New)
NilErr == "nil"
ErrNoSuchMetric == "no such metric"
ErrAlreadyExists == "already exists"
ErrCannotDelete == "cannot delete metric: does not exist"

\* targets (series names) used by the callers
Names == {"x", "y"}

\* sizes passed to Create and NewMetric
Sizes == {-1, 0, 1, 2}

Threads == 1..NumThreads

(* ------------------------------------------------------------ data types *)

\* type Count struct { N float64; T time.Time }
Counts == [N : Values, T : Times]

\* the zero value of Count, what make([]Count, size, size) fills the list with
ZeroCount == [N |-> 0, T |-> ZeroTimeNano]

\* the zero value of row, what make([]row, length) fills the rows with
ZeroRow == [N |-> 0, ms |-> 0]

\* a map[string]*Metric without keys
EmptyMap == [n \in {} |-> Nil]

\* m.metric[target] = metric
MapSet(mp, target, v) == [n \in DOMAIN mp \cup {target} |-> IF n = target THEN v ELSE mp[n]]

\* a map without the key target
MapDrop(mp, target) == [n \in DOMAIN mp \ {target} |-> mp[n]]

Min(a, b) == IF a <= b THEN a ELSE b

\* Go's integer division truncates toward zero
TruncDiv(a, b) == IF a >= 0 THEN a \div b ELSE -((-a) \div b)

\* row{count.N, count.T.UnixNano() / 1000000}
RowOf(count) == [N |-> count.N, ms |-> TruncDiv(count.T, NanosPerMs)]

\* make([]Count, size, size): size zero-valued slots (size >= 0)
MakeList(size) == [i \in 1..size |-> ZeroCount]

\* &Metric{list: make([]Count, size, size), head: 0}
NewMetricObj(size) == [list |-> MakeList(size), head |-> 0]

\* a store one slot too far: g.list[(g.head + 1) % len(g.list)] = c
StoreAtNext(l, h, c) == [l EXCEPT ![((h + 1) % Len(l)) + 1] = c]

\* g.list[g.head] = c  (Go indexes from 0, a TLA+ sequence from 1)
StoreAt(l, h, c) == [l EXCEPT ![h + 1] = c]

\* a head that wraps one step late: g.head = (g.head + 1) % (len(g.list) + 1)
NextHeadLate(l, h) == (h + 1) % (Len(l) + 1)

\* g.head = (g.head + 1) % len(g.list)
NextHead(l, h) == (h + 1) % Len(l)

\* the loop of fetchMetric / fetchDatapoints:
\* for i := 0; i < length; i++ { count := l[(i+head)%length]; append row }
WalkRows(l, h) == [i \in 1..Len(l) |-> RowOf(l[((i - 1 + h) % Len(l)) + 1])]

\* fetchMetric: rows := []Row{} and then the loop
FetchMetricRows(l, h) == WalkRows(l, h)

\* fetchDatapoints: rows := make([]row, length) and then the loop appends
FetchDatapointsRows(l, h) == [i \in 1..Len(l) |-> ZeroRow] \o WalkRows(l, h)

\* for _, el := range c { g.list[g.head] = el; g.head = ... }
RECURSIVE AddAll(_, _, _)
AddAll(l, h, cs) ==
  IF cs = <<>> THEN [list |-> l, head |-> h]
  ELSE AddAll(StoreAt(l, h, Head(cs)), NextHead(l, h), Tail(cs))

\* all lists of at most n Counts
RECURSIVE SeqsUpTo(_)
SeqsUpTo(n) ==
  IF n = 0 THEN {<<>>}
  ELSE LET S == SeqsUpTo(n - 1)
       IN  S \cup {Append(s, c) : s \in {x \in S : Len(x) = n - 1}, c \in Counts}

(* ------------------------------------------------------------- variables *)

VARIABLES
  list,    \* Metric.list of the ring buffer under test
  head,    \* Metric.head of the ring buffer under test
  m,       \* Metric.m: the goroutine holding the buffer's mutex, or 0
  hist,    \* history: the Counts written, in the order the writers held m
  ret,     \* the last method that returned, with what it returned
  metric,  \* Metrics.metric: the map from target to *Metric
  mm,      \* Metrics.m: the goroutine holding the registry's mutex, or 0
  heap,    \* the Metric objects allocated so far; a *Metric is an index
  pc,      \* SpecConc: where each goroutine is
  loc,     \* SpecConc: each goroutine's local variables, and what it returned
  reg,     \* history: target -> *Metric, as the callers were told: a Put that
           \* returned nil registers, a Delete that returned nil unregisters
  gone     \* history: the targets deleted and not registered again since

vars == <<list, head, m, hist, ret, metric, mm, heap, pc, loc, reg, gone>>

bufVars == <<list, head, m, hist>>
regVars == <<metric, mm, heap, reg, gone>>
thrVars == <<pc, loc>>

\* a method's name, without what it returns
NoRet(op) == [op |-> op]

(* ------------------------------------------------- Spec: one goroutine *)

\* NewMetric(name, size) with size in 1..MaxCap, nothing written yet
Init ==
  /\ \E size \in 1..MaxCap :
       /\ list = NewMetricObj(size).list
       /\ head = NewMetricObj(size).head
  /\ m = 0
  /\ hist = <<>>
  /\ ret = NoRet("NewMetric")
  /\ metric = EmptyMap
  /\ mm = 0
  /\ heap = <<>>
  /\ reg = EmptyMap
  /\ gone = {}
  /\ pc = [t \in Threads |-> "idle"]
  /\ loc = [t \in Threads |-> NoRet("none")]

\* the body shared by Add, AddCount and AppendWithTime, all under g.m
Write(op, c) ==
  /\ list' = StoreAt(list, head, c)
  /\ head' = NextHead(list, head)
  /\ hist' = Append(hist, c)
  /\ ret' = NoRet(op)
  /\ UNCHANGED <<m, regVars, thrVars>>

\* func (g *Metric) Add(n float64): the Count is {n, time.Now()}
Add ==
  \E n \in Values, now \in Times :
    /\ Len(hist) < MaxAdds
    /\ Write("Add", [N |-> n, T |-> now])

\* func (g *Metric) AddCount(c Count)
AddCount ==
  \E c \in Counts :
    /\ Len(hist) < MaxAdds
    /\ Write("AddCount", c)

\* func (g *Metric) AddWithTime(n, t) { g.AddCount(Count{n, t}) }
AddWithTime ==
  \E n \in Values, t \in Times :
    /\ Len(hist) < MaxAdds
    /\ Write("AddWithTime", [N |-> n, T |-> t])

\* func (g *Metric) AppendWithTime(n, t)
AppendWithTime ==
  \E n \in Values, t \in Times :
    /\ Len(hist) < MaxAdds
    /\ Write("AppendWithTime", [N |-> n, T |-> t])

\* an AddList that stops at the capacity: of a list longer than the buffer
\* only the first len(g.list) Counts are written
AddListUpToCapacity ==
  \E cs \in SeqsUpTo(MaxBatch) :
    LET kept == SubSeq(cs, 1, Min(Len(cs), Len(list)))
    IN  /\ Len(hist) + Len(cs) <= MaxAdds
        /\ list' = AddAll(list, head, kept).list
        /\ head' = AddAll(list, head, kept).head
        /\ hist' = hist \o cs
        /\ ret' = [op |-> "AddList", c |-> cs]
        /\ UNCHANGED <<m, regVars, thrVars>>

\* func (g *Metric) AddList(c []Count)
AddList ==
  \E cs \in SeqsUpTo(MaxBatch) :
    /\ Len(hist) + Len(cs) <= MaxAdds
    /\ list' = AddAll(list, head, cs).list
    /\ head' = AddAll(list, head, cs).head
    /\ hist' = hist \o cs
    /\ ret' = [op |-> "AddList", c |-> cs]
    /\ UNCHANGED <<m, regVars, thrVars>>

\* func (g *Metric) fetchDatapoints() *[]row
FetchDatapoints ==
  /\ ret' = [op |-> "fetchDatapoints", rows |-> FetchDatapointsRows(list, head)]
  /\ UNCHANGED <<bufVars, regVars, thrVars>>

\* func (g *Metric) fetchMetric() *[]Row
FetchMetric ==
  /\ ret' = [op |-> "fetchMetric", rows |-> FetchMetricRows(list, head)]
  /\ UNCHANGED <<bufVars, regVars, thrVars>>

Next ==
  \/ Add
  \/ AddCount
  \/ AddWithTime
  \/ AppendWithTime
  \/ AddList
  \/ FetchDatapoints
  \/ FetchMetric

Spec == Init /\ [][Next]_vars

(* -------------------------------------------- SpecConc: several goroutines *)

\* the places inside Add / AddCount
AddPcs == {"add_lock", "add_store", "add_head", "add_unlock"}

\* the places inside AddList
AlPcs == {"al_lock", "al_loop"}

\* the Counts of goroutine u's AddList that its loop has not stored yet
Pending(u) ==
  IF pc[u] \in AlPcs THEN {<<u, j>> : j \in (loc[u].i + 1)..Len(loc[u].c)} ELSE {}

\* samples written so far plus the ones called with and not stored yet
Started ==
  Len(hist) + Cardinality({u \in Threads : pc[u] \in {"add_lock", "add_store"}})
            + Cardinality(UNION {Pending(u) : u \in Threads})

\* time.Time values in SpecConc: the goroutines run within one clock reading
ConcTimes == {3000000}

Goto(t, label) == pc' = [pc EXCEPT ![t] = label]

\* a goroutine calls g.Add(n); the callers number their samples, so that
\* every sample written is told from every other
CallAdd(t) ==
  /\ pc[t] = "idle"
  /\ Started < MaxConcAdds
  /\ Goto(t, "add_lock")
  /\ loc' = [loc EXCEPT ![t] = [op |-> "Add", n |-> Started + 1]]
  /\ UNCHANGED <<bufVars, ret, regVars>>

\* a goroutine calls g.AddCount(c)
CallAddCount(t) ==
  \E ts \in ConcTimes :
    /\ pc[t] = "idle"
    /\ Started < MaxConcAdds
    /\ Goto(t, "add_lock")
    /\ loc' = [loc EXCEPT ![t] = [op |-> "AddCount", c |-> [N |-> Started + 1, T |-> ts]]]
      /\ UNCHANGED <<bufVars, ret, regVars>>

\* g.m.Lock() of Add / AddCount: blocks while the mutex is held
AddLock(t) ==
  /\ pc[t] = "add_lock"
  /\ m = 0
  /\ m' = t
  /\ Goto(t, "add_store")
  /\ UNCHANGED <<list, head, hist, ret, regVars, loc>>

\* g.list[g.head] = Count{n, time.Now()}  or  g.list[g.head] = c
AddStore(t) ==
  \E now \in ConcTimes :
    LET c == IF loc[t].op = "Add" THEN [N |-> loc[t].n, T |-> now] ELSE loc[t].c
    IN  /\ pc[t] = "add_store"
        /\ list' = StoreAt(list, head, c)
        /\ hist' = Append(hist, c)
        /\ Goto(t, "add_head")
        /\ UNCHANGED <<head, m, ret, regVars, loc>>

\* g.head = (g.head + 1) % len(g.list)
AddHead(t) ==
  /\ pc[t] = "add_head"
  /\ head' = NextHead(list, head)
  /\ Goto(t, "add_unlock")
  /\ UNCHANGED <<list, m, hist, ret, regVars, loc>>

\* g.m.Unlock() (deferred in Add and AddCount), and the return
AddUnlock(t) ==
  /\ pc[t] = "add_unlock"
  /\ m # 0
  /\ m' = 0
  /\ Goto(t, "idle")
  /\ loc' = [loc EXCEPT ![t] = NoRet("none")]
  /\ UNCHANGED <<list, head, hist, ret, regVars>>

\* a goroutine calls g.AddList(c) with a list of 0..MaxBatch Counts, numbered
\* like the samples of Add; i: the Counts the loop has stored
CallAddList(t) ==
  \E k \in 0..MaxBatch, ts \in ConcTimes :
    /\ pc[t] = "idle"
    /\ Started + k <= MaxConcAdds
    /\ Goto(t, "al_lock")
    /\ loc' = [loc EXCEPT ![t] = [op |-> "AddList", i |-> 0,
                                  c |-> [j \in 1..k |-> [N |-> Started + j, T |-> ts]]]]
    /\ UNCHANGED <<bufVars, ret, regVars>>

\* g.m.Lock() of AddList
AlLock(t) ==
  /\ pc[t] = "al_lock"
  /\ m = 0
  /\ m' = t
  /\ Goto(t, "al_loop")
  /\ UNCHANGED <<list, head, hist, ret, regVars, loc>>

\* an AddList that is a loop of AddCount calls: the mutex is released after
\* every Count and taken again for the next one
AlLoopPerCount(t) ==
  LET el == loc[t].c[loc[t].i + 1]
  IN  /\ pc[t] = "al_loop"
      /\ loc[t].i < Len(loc[t].c)
      /\ list' = StoreAt(list, head, el)
      /\ head' = NextHead(list, head)
      /\ hist' = Append(hist, el)
      /\ loc' = [loc EXCEPT ![t].i = @ + 1]
      /\ m' = 0
      /\ Goto(t, "al_lock")
      /\ UNCHANGED <<ret, regVars>>

\* one turn of the loop: for _, el := range c { g.list[g.head] = el;
\* g.head = (g.head + 1) % len(g.list) }
AlLoop(t) ==
  LET el == loc[t].c[loc[t].i + 1]
  IN  /\ pc[t] = "al_loop"
      /\ loc[t].i < Len(loc[t].c)
      /\ list' = StoreAt(list, head, el)
      /\ head' = NextHead(list, head)
      /\ hist' = Append(hist, el)
      /\ loc' = [loc EXCEPT ![t].i = @ + 1]
      /\ UNCHANGED <<m, ret, regVars, pc>>

\* the loop is over: g.m.Unlock(), and the return
AlUnlock(t) ==
  /\ pc[t] = "al_loop"
  /\ loc[t].i = Len(loc[t].c)
  /\ m # 0
  /\ m' = 0
  /\ Goto(t, "idle")
  /\ loc' = [loc EXCEPT ![t] = NoRet("none")]
  /\ UNCHANGED <<list, head, hist, ret, regVars>>

\* a goroutine calls g.fetchMetric()
CallFetchMetric(t) ==
  /\ pc[t] = "idle"
  /\ Goto(t, "fm_lock")
  /\ loc' = [loc EXCEPT ![t] = NoRet("fetchMetric")]
  /\ UNCHANGED <<bufVars, ret, regVars>>

\* fetchMetric without its g.m.Lock(): it goes on whoever holds the mutex
FmLockMissing(t) ==
  /\ pc[t] = "fm_lock"
  /\ Goto(t, "fm_copy")
  /\ UNCHANGED <<list, head, m, hist, ret, regVars, loc>>

\* g.m.Lock() of fetchMetric
FmLock(t) ==
  /\ pc[t] = "fm_lock"
  /\ m = 0
  /\ m' = t
  /\ Goto(t, "fm_copy")
  /\ UNCHANGED <<list, head, hist, ret, regVars, loc>>

\* length := len(g.list); gcnt := make([]Count, length, length);
\* head := g.head; copy(gcnt, g.list)
\* (at: the number of samples written when the copy is taken)
FmCopy(t) ==
  /\ pc[t] = "fm_copy"
  /\ loc' = [loc EXCEPT ![t] = [op |-> "fetchMetric", at |-> Len(hist), head |-> head,
                                gcnt |-> [i \in 1..Len(list) |-> list[i]]]]
  /\ Goto(t, "fm_unlock")
  /\ UNCHANGED <<bufVars, ret, regVars>>

\* g.m.Unlock() of fetchMetric
FmUnlock(t) ==
  /\ pc[t] = "fm_unlock"
  /\ m # 0
  /\ m' = 0
  /\ Goto(t, "fm_walk")
  /\ UNCHANGED <<list, head, hist, ret, regVars, loc>>

\* the loop of fetchMetric over the copy
FmWalk(t) ==
  /\ pc[t] = "fm_walk"
  /\ loc' = [loc EXCEPT ![t] = [op |-> "fetchMetric", at |-> loc[t].at,
                                rows |-> FetchMetricRows(loc[t].gcnt, loc[t].head)]]
  /\ Goto(t, "fm_ret")
  /\ UNCHANGED <<bufVars, ret, regVars>>

\* return &rows: the caller has the rows
FmRet(t) ==
  /\ pc[t] = "fm_ret"
  /\ Goto(t, "idle")
  /\ loc' = [loc EXCEPT ![t] = NoRet("none")]
  /\ UNCHANGED <<bufVars, ret, regVars>>

\* a goroutine calls g.fetchDatapoints()
CallFetchDatapoints(t) ==
  /\ pc[t] = "idle"
  /\ Goto(t, "fd_lock")
  /\ loc' = [loc EXCEPT ![t] = NoRet("fetchDatapoints")]
  /\ UNCHANGED <<bufVars, ret, regVars>>

\* g.m.Lock() of fetchDatapoints
FdLock(t) ==
  /\ pc[t] = "fd_lock"
  /\ m = 0
  /\ m' = t
  /\ Goto(t, "fd_head")
  /\ UNCHANGED <<list, head, hist, ret, regVars, loc>>

\* length := len(g.list); head := g.head
FdHead(t) ==
  /\ pc[t] = "fd_head"
  /\ loc' = [loc EXCEPT ![t] = [op |-> "fetchDatapoints", head |-> head]]
  /\ Goto(t, "fd_walk")
  /\ UNCHANGED <<bufVars, ret, regVars>>

\* rows := make([]row, length); the loop, which reads g.list itself
\* (at: the number of samples written when the loop runs)
FdWalk(t) ==
  /\ pc[t] = "fd_walk"
  /\ loc' = [loc EXCEPT ![t] = [op |-> "fetchDatapoints", at |-> Len(hist),
                                rows |-> FetchDatapointsRows(list, loc[t].head)]]
  /\ Goto(t, "fd_unlock")
  /\ UNCHANGED <<bufVars, ret, regVars>>

\* the deferred g.m.Unlock() of fetchDatapoints, run by return &rows
FdUnlock(t) ==
  /\ pc[t] = "fd_unlock"
  /\ m # 0
  /\ m' = 0
  /\ Goto(t, "fd_ret")
  /\ UNCHANGED <<list, head, hist, ret, regVars, loc>>

\* return &rows: the caller has the rows
FdRet(t) ==
  /\ pc[t] = "fd_ret"
  /\ Goto(t, "idle")
  /\ loc' = [loc EXCEPT ![t] = NoRet("none")]
  /\ UNCHANGED <<bufVars, ret, regVars>>

NextConc ==
  \E t \in Threads :
    \/ CallAdd(t)
    \/ CallAddCount(t)
    \/ AddLock(t)
    \/ AddStore(t)
    \/ AddHead(t)
    \/ AddUnlock(t)
    \/ CallAddList(t)
    \/ AlLock(t)
    \/ AlLoop(t)
    \/ AlUnlock(t)
    \/ CallFetchMetric(t)
    \/ FmLock(t)
    \/ FmCopy(t)
    \/ FmUnlock(t)
    \/ FmWalk(t)
    \/ FmRet(t)
    \/ CallFetchDatapoints(t)
    \/ FdLock(t)
    \/ FdHead(t)
    \/ FdWalk(t)
    \/ FdUnlock(t)
    \/ FdRet(t)

SpecConc == Init /\ [][NextConc]_vars

(* ------------------------------------- SpecReg: the registry, one goroutine *)

\* a Metrics with an empty map, no Metric allocated yet
InitReg ==
  /\ list = NewMetricObj(1).list
  /\ head = NewMetricObj(1).head
  /\ m = 0
  /\ hist = <<>>
  /\ ret = [op |-> "none", panic |-> FALSE]
  /\ metric = EmptyMap
  /\ mm = 0
  /\ heap = <<>>
  /\ reg = EmptyMap
  /\ gone = {}
  /\ pc = [t \in Threads |-> "idle"]
  /\ loc = [t \in Threads |-> NoRet("none")]

\* a panic nobody recovers ends the program
Running == ~ret.panic

\* mt, ok := m.metric[target]; if !ok { return nil, error }; return mt, nil
GetResult(mp, target) ==
  IF target \in DOMAIN mp THEN [val |-> mp[target], err |-> NilErr]
  ELSE [val |-> Nil, err |-> ErrNoSuchMetric]

\* _, exists := m.metric[target]; if exists { return error };
\* m.metric[target] = metric; return nil
PutResult(mp, target, ref) ==
  IF target \in DOMAIN mp THEN [map |-> mp, err |-> ErrAlreadyExists]
  ELSE [map |-> MapSet(mp, target, ref), err |-> NilErr]

\* _, exists := m.metric[target]; if !exists { return error };
\* m.metric[target] = nil; return nil
DeleteResult(mp, target) ==
  IF target \notin DOMAIN mp THEN [map |-> mp, err |-> ErrCannotDelete]
  ELSE [map |-> MapSet(mp, target, Nil), err |-> NilErr]

\* func NewMetric(name string, size int) *Metric; make panics when size < 0
NewMetric ==
  \E size \in Sizes :
    /\ Running
    /\ Len(heap) < MaxMetrics
    /\ IF size < 0
       THEN /\ ret' = [op |-> "NewMetric", size |-> size, panic |-> TRUE]
            /\ UNCHANGED heap
       ELSE /\ heap' = Append(heap, NewMetricObj(size))
            /\ ret' = [op |-> "NewMetric", size |-> size, panic |-> FALSE,
                       val |-> Len(heap) + 1, err |-> NilErr]
    /\ UNCHANGED <<bufVars, metric, mm, reg, gone, thrVars>>

\* func (m *Metrics) Get(target string) (*Metric, error)
Get ==
  \E target \in Names :
    /\ Running
    /\ ret' = [op |-> "Get", target |-> target, panic |-> FALSE,
               val |-> GetResult(metric, target).val,
               err |-> GetResult(metric, target).err]
    /\ UNCHANGED <<bufVars, regVars, thrVars>>

\* func (m *Metrics) Put(target string, metric *Metric) error
Put ==
  \E target \in Names, ref \in DOMAIN heap :
    LET r == PutResult(metric, target, ref)
    IN  /\ Running
        /\ metric' = r.map
        /\ ret' = [op |-> "Put", target |-> target, ref |-> ref, panic |-> FALSE,
                   err |-> r.err]
        /\ reg' = IF r.err = NilErr THEN MapSet(reg, target, ref) ELSE reg
        /\ gone' = IF r.err = NilErr THEN gone \ {target} ELSE gone
        /\ UNCHANGED <<bufVars, mm, heap, thrVars>>

\* func (m *Metrics) Delete(target string) error
Delete ==
  \E target \in Names :
    LET r == DeleteResult(metric, target)
    IN  /\ Running
        /\ metric' = r.map
        /\ ret' = [op |-> "Delete", target |-> target, panic |-> FALSE, err |-> r.err]
        /\ reg' = IF r.err = NilErr THEN MapDrop(reg, target) ELSE reg
        /\ gone' = IF r.err = NilErr THEN gone \cup {target} ELSE gone
        /\ UNCHANGED <<bufVars, mm, heap, thrVars>>

\* func (m *Metrics) Create(target string, size int) (*Metric, error):
\* metric := &Metric{list: make(...)}; m.Put(target, metric); return metric, nil
Create ==
  \E target \in Names, size \in Sizes :
    /\ Running
    /\ Len(heap) < MaxMetrics
    /\ IF size < 0
       THEN /\ ret' = [op |-> "Create", target |-> target, size |-> size, panic |-> TRUE]
            /\ UNCHANGED <<heap, metric, reg, gone>>
       ELSE LET ref == Len(heap) + 1
                r == PutResult(metric, target, ref)
            IN  /\ heap' = Append(heap, NewMetricObj(size))
                /\ metric' = r.map
                /\ ret' = [op |-> "Create", target |-> target, size |-> size,
                           panic |-> FALSE, val |-> ref, err |-> NilErr]
                /\ reg' = IF r.err = NilErr THEN MapSet(reg, target, ref) ELSE reg
                /\ gone' = IF r.err = NilErr THEN gone \ {target} ELSE gone
    /\ UNCHANGED <<bufVars, mm, thrVars>>

\* func (a *App) searchHandler: for t, _ := range *(a.Metrics) { targets =
\* append(targets, t) }: every key of the map, whatever its value; the order
\* of a range over a map is not fixed, the targets are kept as a set
SearchHandler ==
  /\ Running
  /\ ret' = [op |-> "searchHandler", panic |-> FALSE, targets |-> DOMAIN metric]
  /\ UNCHANGED <<bufVars, regVars, thrVars>>

NextReg ==
  \/ NewMetric
  \/ Get
  \/ Put
  \/ Delete
  \/ Create
  \/ SearchHandler

SpecReg == InitReg /\ [][NextReg]_vars

(* ------------- SpecLive: goroutines on the registry and on a buffer, fair *)

\* the sizes the goroutines create buffers with, and the target they all
\* use: one name, so that every two registry calls meet on the same key
LiveSizes == {1}
LiveNames == {"x"}

\* a goroutine calls m.Get(target)
CallGet(t) ==
  \E target \in LiveNames :
    /\ pc[t] = "idle"
    /\ Goto(t, "get_lock")
    /\ loc' = [loc EXCEPT ![t] = [op |-> "Get", target |-> target]]
    /\ UNCHANGED <<bufVars, ret, regVars>>

\* m.m.Lock() of Get (m the Metrics): blocks while the mutex is held
GetLock(t) ==
  /\ pc[t] = "get_lock"
  /\ mm = 0
  /\ mm' = t
  /\ Goto(t, "get_read")
  /\ UNCHANGED <<bufVars, ret, metric, heap, reg, gone, loc>>

\* mt, ok := m.metric[target], kept as the values Get will return for them
GetRead(t) ==
  /\ pc[t] = "get_read"
  /\ loc' = [loc EXCEPT ![t] = [op |-> "Get", target |-> loc[t].target,
                                val |-> GetResult(metric, loc[t].target).val,
                                err |-> GetResult(metric, loc[t].target).err]]
  /\ Goto(t, "get_unlock")
  /\ UNCHANGED <<bufVars, ret, regVars>>

\* m.m.Unlock() of Get, then if !ok { return nil, error }; return mt, nil
GetUnlock(t) ==
  /\ pc[t] = "get_unlock"
  /\ mm # 0
  /\ mm' = 0
  /\ Goto(t, "idle")
  /\ loc' = [loc EXCEPT ![t] = NoRet("none")]
  /\ UNCHANGED <<bufVars, ret, metric, heap, reg, gone>>

\* the Metrics a caller can hold: the ones a Create has returned
ReturnedMetrics ==
  DOMAIN heap \ ( {loc[u].ref : u \in {v \in Threads : pc[v] \in {"put_lock", "put_store",
                                                                 "put_unlock", "put_ret"}}}
                   \cup {loc[u].val : u \in {v \in Threads : pc[v] = "create_ret"}} )

\* a goroutine calls m.Put(target, metric) with a Metric a Create returned
\* (free, history: the target was not registered when the call was made)
CallPut(t) ==
  \E target \in LiveNames, ref \in ReturnedMetrics :
    /\ pc[t] = "idle"
    /\ Goto(t, "put_lock")
    /\ loc' = [loc EXCEPT ![t] = [op |-> "Put", target |-> target, ref |-> ref,
                                  free |-> target \notin DOMAIN reg]]
    /\ UNCHANGED <<bufVars, ret, regVars>>

\* m.m.Lock() of Put, called by the goroutine or by its Create
PutLock(t) ==
  /\ pc[t] = "put_lock"
  /\ mm = 0
  /\ mm' = t
  /\ Goto(t, "put_store")
  /\ UNCHANGED <<bufVars, ret, metric, heap, reg, gone, loc>>

\* _, exists := m.metric[target]; if exists { return error };
\* m.metric[target] = metric; return nil
PutStore(t) ==
  LET r == PutResult(metric, loc[t].target, loc[t].ref)
  IN  /\ pc[t] = "put_store"
      /\ metric' = r.map
      /\ loc' = [loc EXCEPT ![t] = [op |-> loc[t].op, target |-> loc[t].target,
                                    ref |-> loc[t].ref, free |-> loc[t].free,
                                    err |-> r.err]]
      /\ reg' = IF r.err = NilErr THEN MapSet(reg, loc[t].target, loc[t].ref) ELSE reg
      /\ gone' = IF r.err = NilErr THEN gone \ {loc[t].target} ELSE gone
      /\ Goto(t, "put_unlock")
      /\ UNCHANGED <<bufVars, ret, mm, heap>>

\* the deferred m.m.Unlock() of Put
PutUnlock(t) ==
  /\ pc[t] = "put_unlock"
  /\ mm # 0
  /\ mm' = 0
  /\ Goto(t, "put_ret")
  /\ UNCHANGED <<bufVars, ret, metric, heap, reg, gone, loc>>

\* Put returns its error to the caller. In Create the caller is the line
\* m.Put(target, metric), which drops the error, and Create goes on to its
\* return metric, nil
PutRet(t) ==
  /\ pc[t] = "put_ret"
  /\ IF loc[t].op = "Create"
     THEN /\ Goto(t, "create_ret")
          /\ loc' = [loc EXCEPT ![t] = [op |-> "Create", target |-> loc[t].target,
                                        free |-> loc[t].free,
                                        val |-> loc[t].ref, err |-> NilErr]]
     ELSE /\ Goto(t, "idle")
          /\ loc' = [loc EXCEPT ![t] = NoRet("none")]
  /\ UNCHANGED <<bufVars, ret, regVars>>

\* a goroutine calls m.Delete(target)
CallDelete(t) ==
  \E target \in LiveNames :
    /\ pc[t] = "idle"
    /\ Goto(t, "delete_lock")
    /\ loc' = [loc EXCEPT ![t] = [op |-> "Delete", target |-> target]]
    /\ UNCHANGED <<bufVars, ret, regVars>>

\* m.m.Lock() of Delete
DeleteLock(t) ==
  /\ pc[t] = "delete_lock"
  /\ mm = 0
  /\ mm' = t
  /\ Goto(t, "delete_store")
  /\ UNCHANGED <<bufVars, ret, metric, heap, reg, gone, loc>>

\* _, exists := m.metric[target]; if !exists { return error };
\* m.metric[target] = nil; return nil
DeleteStore(t) ==
  LET r == DeleteResult(metric, loc[t].target)
  IN  /\ pc[t] = "delete_store"
      /\ metric' = r.map
      /\ loc' = [loc EXCEPT ![t] = [op |-> "Delete", target |-> loc[t].target,
                                    err |-> r.err]]
      /\ reg' = IF r.err = NilErr THEN MapDrop(reg, loc[t].target) ELSE reg
      /\ gone' = IF r.err = NilErr THEN gone \cup {loc[t].target} ELSE gone
      /\ Goto(t, "delete_unlock")
      /\ UNCHANGED <<bufVars, ret, mm, heap>>

\* the deferred m.m.Unlock() of Delete, and the return
DeleteUnlock(t) ==
  /\ pc[t] = "delete_unlock"
  /\ mm # 0
  /\ mm' = 0
  /\ Goto(t, "idle")
  /\ loc' = [loc EXCEPT ![t] = NoRet("none")]
  /\ UNCHANGED <<bufVars, ret, metric, heap, reg, gone>>

\* a Create that takes m.m itself before it calls Put
CallCreateLocked(t) ==
  \E target \in LiveNames, size \in LiveSizes :
    /\ pc[t] = "idle"
    /\ Len(heap) < MaxMetrics
    /\ mm = 0
    /\ mm' = t
    /\ heap' = Append(heap, NewMetricObj(size))
    /\ Goto(t, "put_lock")
    /\ loc' = [loc EXCEPT ![t] = [op |-> "Create", target |-> target,
                                  ref |-> Len(heap) + 1,
                                  free |-> target \notin DOMAIN reg]]
    /\ UNCHANGED <<bufVars, ret, metric, reg, gone>>

\* a goroutine calls m.Create(target, size): metric := &Metric{list:
\* make([]Count, size, size)}, and then the call m.Put(target, metric)
CallCreate(t) ==
  \E target \in LiveNames, size \in LiveSizes :
    /\ pc[t] = "idle"
    /\ Len(heap) < MaxMetrics
    /\ heap' = Append(heap, NewMetricObj(size))
    /\ Goto(t, "put_lock")
    /\ loc' = [loc EXCEPT ![t] = [op |-> "Create", target |-> target,
                                  ref |-> Len(heap) + 1,
                                  free |-> target \notin DOMAIN reg]]
    /\ UNCHANGED <<bufVars, ret, metric, mm, reg, gone>>

\* Create returns metric, nil
CreateRet(t) ==
  /\ pc[t] = "create_ret"
  /\ Goto(t, "idle")
  /\ loc' = [loc EXCEPT ![t] = NoRet("none")]
  /\ UNCHANGED <<bufVars, ret, regVars>>

\* the steps of goroutine t on the registry
RegStep(t) ==
  \/ CallGet(t)
  \/ GetLock(t)
  \/ GetRead(t)
  \/ GetUnlock(t)
  \/ CallPut(t)
  \/ PutLock(t)
  \/ PutStore(t)
  \/ PutUnlock(t)
  \/ PutRet(t)
  \/ CallDelete(t)
  \/ DeleteLock(t)
  \/ DeleteStore(t)
  \/ DeleteUnlock(t)
  \/ CallCreate(t)
  \/ CreateRet(t)

\* the steps of goroutine t on the buffer
BufStep(t) ==
  \/ CallAdd(t)
  \/ CallAddCount(t)
  \/ AddLock(t)
  \/ AddStore(t)
  \/ AddHead(t)
  \/ AddUnlock(t)
  \/ CallAddList(t)
  \/ AlLock(t)
  \/ AlLoop(t)
  \/ AlUnlock(t)
  \/ CallFetchMetric(t)
  \/ FmLock(t)
  \/ FmCopy(t)
  \/ FmUnlock(t)
  \/ FmWalk(t)
  \/ FmRet(t)
  \/ CallFetchDatapoints(t)
  \/ FdLock(t)
  \/ FdHead(t)
  \/ FdWalk(t)
  \/ FdUnlock(t)
  \/ FdRet(t)

NextLive == \E t \in Threads : BufStep(t) \/ RegStep(t)

\* the Lock() calls: sync.Mutex hands the mutex to a goroutine that has
\* waited long (starvation mode), so a waiter is not passed over for ever
LockStep(t) ==
  \/ AddLock(t)
  \/ AlLock(t)
  \/ FmLock(t)
  \/ FdLock(t)
  \/ GetLock(t)
  \/ PutLock(t)
  \/ DeleteLock(t)

\* the steps inside a method, after the call and other than Lock(): the Go
\* scheduler runs every goroutine that can run
RunStep(t) ==
  \/ AddStore(t)
  \/ AddHead(t)
  \/ AddUnlock(t)
  \/ AlLoop(t)
  \/ AlUnlock(t)
  \/ FmCopy(t)
  \/ FmUnlock(t)
  \/ FmWalk(t)
  \/ FmRet(t)
  \/ FdHead(t)
  \/ FdWalk(t)
  \/ FdUnlock(t)
  \/ FdRet(t)
  \/ GetRead(t)
  \/ GetUnlock(t)
  \/ PutStore(t)
  \/ PutUnlock(t)
  \/ PutRet(t)
  \/ DeleteStore(t)
  \/ DeleteUnlock(t)
  \/ CreateRet(t)

Fairness == \A t \in Threads : WF_vars(RunStep(t)) /\ SF_vars(LockStep(t))

SpecLive == InitReg /\ [][NextLive]_vars /\ Fairness

(* ------------------------------------------------------------ the claims *)

SnapshotOps == {"fetchDatapoints", "fetchMetric"}

\* the last n samples written, oldest first, as the rows a snapshot gives them
LastRows(n) == [i \in 1..n |-> RowOf(hist[Len(hist) - n + i])]

\* C1 (Spec): after N Add calls on a fresh buffer of capacity C, the snapshot
\* (fetchDatapoints / fetchMetric) has exactly min(N, C) rows.
C1_SnapshotLength ==
  ret.op \in SnapshotOps => Len(ret.rows) = Min(Len(hist), Len(list))

\* C2 (Spec): once C + k samples (k >= 0) have been written to a buffer of
\* capacity C, the snapshot is exactly the last C of them, oldest first, each
\* with the timestamp it was added with (in milliseconds).
C2_SnapshotKeepsNewest ==
  (ret.op \in SnapshotOps /\ Len(hist) >= Len(list)) => ret.rows = LastRows(Len(list))

\* C3 (Spec): while fewer samples than the capacity have been written, the
\* snapshot is exactly the samples written, in write order: no slot that was
\* never written shows up.
C3_UnwrittenSlotsHidden ==
  (ret.op \in SnapshotOps /\ Len(hist) < Len(list)) => ret.rows = LastRows(Len(hist))

\* the snapshot of goroutine t is returning: the caller gets loc[t].rows
Returned(t) == pc[t] \in {"fm_ret", "fd_ret"}

\* two Adds ran concurrently: the callers number their samples in the order
\* of the calls, and a sample called later was written first
Raced == \E i, j \in 1..Len(hist) : i < j /\ hist[i].N > hist[j].N

\* every Add, AddCount and AddList called has returned
AddsReturned == \A u \in Threads : pc[u] \notin AddPcs \cup AlPcs

\* C4 (SpecConc): after goroutines have called Add concurrently (Add,
\* AddCount, or AddList, whose loop is Add's two statements) and all of them
\* have returned, the snapshot (one that took the mutex after the last of
\* them returned, no Add called since) has min(total adds, C) rows and is
\* what the same Adds give one after the other, in the order they held the
\* mutex: the last min(total, C) samples, none twice, none made up, none lost.
C4_ConcurrentAddsSerialize ==
  \A t \in Threads :
    (Returned(t) /\ Raced /\ AddsReturned /\ loc[t].at = Len(hist))
    => loc[t].rows = LastRows(Min(Len(hist), Len(list)))

\* the slots of the buffer after the first k writes, oldest first; a slot
\* never written holds the zero Count
ContentsAt(k) ==
  [i \in 1..Len(list) |->
     LET j == k - Len(list) + i IN IF j >= 1 THEN hist[j] ELSE ZeroCount]

\* what a snapshot that runs alone returns after the first k writes: the
\* slots oldest first; fetchDatapoints returns them after the length zero
\* rows make() gave it (C1, C2), with or without other goroutines
SnapshotAt(op, k) ==
  (IF op = "fetchDatapoints" THEN [i \in 1..Len(list) |-> ZeroRow] ELSE <<>>)
    \o [i \in 1..Len(list) |-> RowOf(ContentsAt(k)[i])]

\* C5 (SpecConc): a snapshot that runs while other goroutines add returns
\* the buffer as it was at one instant between two Adds, the instant it read
\* list and head under the mutex: the slots as they were after the first
\* `at` writes, oldest first in the order the writers held the mutex, no
\* sample twice or missing, no Add seen half applied.
C5_SnapshotIsAtomic ==
  \A t \in Threads : Returned(t) => loc[t].rows = SnapshotAt(loc[t].op, loc[t].at)

\* C5's case: a fetchMetric took its copy after a sample was written, and
\* another sample was written before it returned
C5_Witness ==
  \E t \in Threads :
    /\ Returned(t)
    /\ loc[t].op = "fetchMetric"
    /\ Len(list) >= 2
    /\ loc[t].at >= 1
    /\ Len(hist) > loc[t].at

\* every Metric allocated has a capacity >= 1 (the cases below are kept apart
\* from the buffers of capacity 0 of C9)
ValidHeap == \A r \in DOMAIN heap : Len(heap[r].list) >= 1

\* C6 (SpecReg): Create on a target that is registered returns an error and no
\* buffer, and the target keeps its buffer.
C6_CreateExistingFails ==
  [][ (ret'.op = "Create" /\ ret'.size >= 1 /\ ret'.target \in DOMAIN reg /\ ValidHeap')
      => ( /\ ret'.err # NilErr
           /\ ret'.val = Nil
           /\ GetResult(metric', ret'.target).val = reg[ret'.target] ) ]_vars

\* C7 (SpecReg): after a Delete that succeeded, and until the target is
\* registered again, Get of the target returns an error.
C7_DeletedNameNotFound ==
  (ret.op = "Get" /\ ret.target \in gone /\ ValidHeap) => ret.err # NilErr

\* C8 (SpecReg): after a Delete that succeeded the target can be used again:
\* the next Create or Put of it succeeds and Get then returns the new buffer.
C8_DeletedNameReusable ==
  [][ ( /\ ret'.op \in {"Create", "Put"}
        /\ ret'.target \in gone
        /\ ret'.op = "Create" => ret'.size >= 1
        /\ ValidHeap' )
      => ( /\ ret'.err = NilErr
           /\ GetResult(metric', ret'.target) =
                [val |-> IF ret'.op = "Create" THEN ret'.val ELSE ret'.ref,
                 err |-> NilErr] ) ]_vars

\* C9 (SpecReg): Create and NewMetric with size <= 0 fail with an error: no
\* buffer is returned, nothing is registered, no buffer has a capacity < 1.
C9_NonPositiveCapacityFails ==
  /\ (ret.op \in {"Create", "NewMetric"} /\ ret.size <= 0)
       => (~ret.panic /\ ret.err # NilErr /\ ret.val = Nil)
  /\ ValidHeap

\* C10 (SpecReg): Get succeeds exactly when the target is registered, and then
\* returns the buffer the Create or Put that registered it supplied.
C10_GetIffRegistered ==
  (ret.op = "Get" /\ ValidHeap) =>
    /\ (ret.err = NilErr) <=> (ret.target \in DOMAIN reg)
    /\ ret.target \in DOMAIN reg => ret.val = reg[ret.target]

\* C11 (SpecReg): Put on a target that is registered fails with "already
\* exists" and leaves the registry as it was; Put on a target that is not
\* registered succeeds and leaves every other target's mapping as it was.
C11_PutOnlyWhenUnregistered ==
  [][ (ret'.op = "Put" /\ ValidHeap')
      => IF ret'.target \in DOMAIN reg
         THEN /\ ret'.err = ErrAlreadyExists
              /\ metric' = metric
         ELSE /\ ret'.err = NilErr
              /\ \A n \in Names \ {ret'.target} :
                    GetResult(metric', n) = GetResult(metric, n) ]_vars

\* C12 (SpecReg): Delete on a target that has no live buffer, because it was
\* never registered or was deleted already, fails with "not found" and leaves
\* the registry as it was.
C12_DeleteUnregisteredFails ==
  [][ (ret'.op = "Delete" /\ ret'.target \notin DOMAIN reg /\ ValidHeap')
      => (ret'.err = ErrCannotDelete /\ metric' = metric) ]_vars

\* C14 (SpecReg): the listing of the names is exactly the set of registered
\* names: a name is listed exactly when Get of it succeeds, and a name that
\* was deleted is not listed.
C14_ListsRegisteredNames ==
  (ret.op = "searchHandler" /\ ValidHeap) =>
    /\ \A n \in Names : n \in ret.targets <=> GetResult(metric, n).err = NilErr
    /\ ret.targets = DOMAIN reg
    /\ ret.targets \cap gone = {}

\* one Add on the buffer b: what Add, AddCount and AppendWithTime do under g.m
AfterAdd(b, c) == [list |-> StoreAt(b.list, b.head, c), head |-> NextHead(b.list, b.head)]

\* Add of cs[1], then of cs[2], ... then of cs[n], each on what the one
\* before left
RECURSIVE AddsInTurn(_, _, _)
AddsInTurn(b, cs, n) ==
  IF n = 0 THEN b ELSE AfterAdd(AddsInTurn(b, cs, n - 1), cs[n])

\* C13 (Spec): AddList(s1..sn) leaves the buffer, its slots and its head, as
\* Add of s1, then s2, ... then sn leaves it, whatever the buffer held before
\* and whatever n is, n greater than the capacity included.
C13_AddListIsAddsInTurn ==
  [][ ret'.op = "AddList"
      => [list |-> list', head |-> head'] =
           AddsInTurn([list |-> list, head |-> head], ret'.c, Len(ret'.c)) ]_vars

\* C13's case: an AddList of more Counts than the buffer has slots, on a
\* buffer of two or more slots that had been written to and whose head was
\* not at slot 0
C13_Witness ==
  /\ ret.op = "AddList"
  /\ Len(list) >= 2
  /\ Len(ret.c) > Len(list)
  /\ Len(hist) > Len(ret.c)
  /\ (Len(hist) - Len(ret.c)) % Len(list) # 0

SingleAdds == {"Add", "AddCount", "AddWithTime", "AppendWithTime"}

\* C16 (Spec): one Add writes the new sample into the slot at the old head
\* and moves head to (old head + 1) mod capacity; every other slot keeps what
\* it held, so on a full buffer the one sample lost is the oldest one.
C16_AddWritesAtHead ==
  [][ ret'.op \in SingleAdds
      => ( /\ Len(list') = Len(list)
           /\ list'[head + 1] = hist'[Len(hist')]
           /\ head' = (head + 1) % Len(list)
           /\ \A i \in 1..Len(list) : i # head + 1 => list'[i] = list[i]
           /\ Len(hist) >= Len(list)
                => list[head + 1] = hist[Len(hist) - Len(list) + 1] ) ]_vars

\* C16's case: an Add on a full buffer of two or more slots, whose head was
\* at the last slot, has overwritten the oldest sample
C16_Witness ==
  /\ ret.op \in SingleAdds
  /\ Len(list) >= 2
  /\ Len(hist) > Len(list)
  /\ head = 0

\* goroutine t does the traversal in this step: its rows come to be
Converts(t) == "rows" \in DOMAIN loc'[t] /\ "rows" \notin DOMAIN loc[t]

\* C17 (SpecConc): a snapshot holds the buffer's mutex only while it copies
\* list and reads head: the mutex is released before the traversal that
\* converts the Counts to rows, so that an Add can run during the traversal.
C17_TraversalOutsideLock ==
  [][ \A t \in Threads : Converts(t) => m # t ]_vars

\* goroutine t is inside an AddList, between two Counts of its list
MidBatch(t) ==
  IF pc[t] \in AlPcs THEN 0 < loc[t].i /\ loc[t].i < Len(loc[t].c) ELSE FALSE

\* goroutine u takes its view of the buffer in this step (at: the number of
\* samples written that the view holds)
TakesView(u) == "at" \in DOMAIN loc'[u] /\ "at" \notin DOMAIN loc[u]

\* C20 (SpecConc): AddList holds the mutex from its first Count to its last:
\* between two Counts of one AddList no other goroutine writes a sample and
\* no snapshot takes its view, so a snapshot holds none or all of the list.
C20_AddListIsOneCriticalSection ==
  [][ \A t \in Threads :
        MidBatch(t) =>
          /\ hist' # hist => hist' = Append(hist, loc[t].c[loc[t].i + 1])
          /\ \A u \in Threads \ {t} : ~TakesView(u) /\ ~MidBatch(u) ]_vars

\* C20's case: an AddList is between two Counts of its list while another
\* goroutine waits for the mutex to add or to take a snapshot
C20_Witness ==
  \E t \in Threads, u \in Threads :
    /\ MidBatch(t)
    /\ pc[u] \in {"add_lock", "al_lock", "fm_lock", "fd_lock"}

\* where a goroutine waits for the buffer's mutex, and for the registry's
BufLockPcs == {"add_lock", "al_lock", "fm_lock", "fd_lock"}
RegLockPcs == {"get_lock", "put_lock", "delete_lock"}

\* where a goroutine is outside every critical section: before a method,
\* and at the return to the caller after the mutex was released
OutsidePcs == {"idle", "fm_walk", "fm_ret", "fd_ret", "put_ret", "create_ret"}

\* no goroutine holds both mutexes; none calls Lock() on a mutex it holds or
\* while it holds the other one; none is outside a method with a mutex held
LockDiscipline ==
  \A t \in Threads :
    /\ ~(m = t /\ mm = t)
    /\ pc[t] \in BufLockPcs \cup RegLockPcs \cup OutsidePcs => (m # t /\ mm # t)

\* goroutine t waits in Lock() for a mutex that is held
Blocked(t) ==
  \/ pc[t] \in BufLockPcs /\ m # 0
  \/ pc[t] \in RegLockPcs /\ mm # 0

\* while a method is running, some goroutine inside a method can take a step
NoDeadlock ==
  (\E t \in Threads : pc[t] # "idle") => \E t \in Threads : pc[t] # "idle" /\ ~Blocked(t)

\* C18 (SpecLive): no operation holds the registry's mutex and the buffer's
\* at once or locks a mutex it holds, no state is a deadlock, and under fair
\* scheduling every Add, AddCount, AddList, snapshot, Get, Put, Delete and
\* Create that was called returns, with no mutex held by its goroutine.
C18_LocksAndProgress ==
  /\ [](LockDiscipline /\ NoDeadlock)
  /\ \A t \in Threads : (pc[t] # "idle") ~> (pc[t] = "idle" /\ m # t /\ mm # t)

\* C18's case: one goroutine is in the middle of an AddList with the buffer's
\* mutex, another is inside the Put of its Create with the registry's
C18_Witness ==
  \E t \in Threads, u \in Threads :
    /\ MidBatch(t)
    /\ m = t
    /\ mm = u
    /\ loc[u].op = "Create"

\* Create or Put of goroutine t is returning: the caller is told loc[t].err
\* about the buffer Held(t)
Telling(t) == pc[t] = "create_ret" \/ (pc[t] = "put_ret" /\ loc[t].op = "Put")
Held(t) == IF pc[t] = "create_ret" THEN loc[t].val ELSE loc[t].ref

\* C19 (SpecLive): when two goroutines Create or Put the same target at the
\* same time, both called while it was not registered and nothing deleted
\* since, one is told it succeeded and the other "already exists", and the
\* one told it succeeded has the buffer that Get returns.
C19_OneConcurrentCreateWins ==
  \A t \in Threads : \A u \in Threads \ {t} :
    ( /\ Telling(t)
      /\ Telling(u)
      /\ loc[t].target = loc[u].target
      /\ loc[t].free
      /\ loc[u].free
      /\ gone = {}
      /\ loc[t].target \in DOMAIN reg
      /\ reg[loc[t].target] \in {Held(t), Held(u)} )
    => /\ {loc[t].err, loc[u].err} = {NilErr, ErrAlreadyExists}
       /\ loc[t].err = NilErr => GetResult(metric, loc[t].target).val = Held(t)

====
